---- MODULE Spec2Model ----
(***************************************************************************)
(* tox-current-env: the plugin hooks of src/tox_current_env/hooks.py as a  *)
(* state machine.  The state is the parsed command line (config.option),   *)
(* the part of the tox configuration the plugin writes, the directory tree *)
(* of every test environment, and the stream --print-deps-to writes to.    *)
(* Every hook is one action; the host (tox) calls them in an order the     *)
(* plugin does not control, so every order is allowed after tox_configure. *)
(***************************************************************************)
EXTENDS Integers, Sequences, FiniteSets, TLC

\* ---------------------------------------------------------------- bounds
MaxDeps == 2            \* longest list get_resolved_dependencies returns
MaxSink == 4            \* most tokens the print-deps stream holds

\* ---------------------------------------------------------------- values
None == "None"
NoVersion == <<>>       \* python_info.version_info is None
NL == "\n"

Envs == {"py39", "py311"}           \* session.venv_dict / config.envconfigs
DepNames == {"six", "py"}
\* what get_resolved_dependencies can return: lists of distinct specifiers
DepLists ==
    {d \in UNION {[1..k -> DepNames] : k \in 0..MaxDeps} :
        \A i, j \in DOMAIN d : d[i] = d[j] => i = j}
Platforms == {"linux", "win32"}     \* sys.platform
PythonKinds == {"none", "file", "symlink", "junction"}

\* sys.version_info of the interpreter that runs tox
sys_version_info == <<3, 9, 1>>
\* venv.envconfig.python_info.version_info as the host reports it
VersionInfos == {NoVersion, <<3, 9, 1>>, <<3, 9, 0>>, <<3, 11, 1>>}

\* The directory tree of one environment: envdir is
\* dirname(dirname(get_envpython())), bindir is dirname(get_envpython()),
\* python is what lies at get_envpython(), activate is bindir/activate;
\* bindir_junction tells whether bindir itself is a junction rather than a
\* directory of its own.
FsStates ==
    {f \in [envdir : BOOLEAN, bindir : BOOLEAN, bindir_junction : BOOLEAN,
            python : PythonKinds, activate : BOOLEAN] :
        /\ f.bindir => f.envdir
        /\ f.bindir_junction => f.bindir
        /\ (f.python # "none" \/ f.activate) => f.bindir}

NoTree == [envdir |-> FALSE, bindir |-> FALSE, bindir_junction |-> FALSE,
           python |-> "none", activate |-> FALSE]

\* The trees a run can find on disk when it starts: nothing, a tree left
\* half-built by a killed run (an activation script without interpreter),
\* the link of a --current-env run (a symlink, or a junction on win32), or
\* a virtualenv that tox built.
LinkKind(platform) == IF platform = "win32" THEN "junction" ELSE "symlink"

InitTrees(platform) ==
    {NoTree,
     [envdir |-> TRUE, bindir |-> TRUE, bindir_junction |-> FALSE, python |-> "none", activate |-> TRUE],
     [envdir |-> TRUE, bindir |-> TRUE, bindir_junction |-> FALSE, python |-> LinkKind(platform), activate |-> FALSE],
     [envdir |-> TRUE, bindir |-> TRUE, bindir_junction |-> FALSE, python |-> "file", activate |-> TRUE]}

\* ---------------------------------------------------------------- errors
NoErr == [type |-> "none", msg |-> "", current |-> <<>>, requested |-> <<>>]

ConfigError(m) == [type |-> "ConfigError", msg |-> m, current |-> <<>>, requested |-> <<>>]

InterpreterNotFound == [type |-> "InterpreterNotFound", msg |-> "basepython", current |-> <<>>, requested |-> <<>>]

InterpreterMismatch(cur, req) ==
    [type |-> "InterpreterMismatch", msg |-> "interpreter versions do not match", current |-> cur, requested |-> req]

FileExistsError == [type |-> "FileExistsError", msg |-> "makedirs", current |-> <<>>, requested |-> <<>>]

FileNotFoundError == [type |-> "FileNotFoundError", msg |-> "rmtree", current |-> <<>>, requested |-> <<>>]

\* class InterpreterMismatch(tox.exception.InterpreterNotFound)
BaseClass(t) == IF t = "InterpreterMismatch" THEN "InterpreterNotFound" ELSE "Error"

\* ---------------------------------------------------------------- inspector
python_activate_exists(f) == <<f.python # "none", f.activate>>

is_current_env_link(f) ==
    LET pa == python_activate_exists(f) IN pa[1] /\ ~pa[2]

is_proper_venv(f) ==
    LET pa == python_activate_exists(f) IN pa[1] /\ pa[2]

\* mutant: anything in the bin directory counts as an environment
is_any_env_or_activate(f) ==
    LET pa == python_activate_exists(f) IN pa[1] \/ pa[2]

is_any_env(f) ==
    LET pa == python_activate_exists(f) IN pa[1]

\* ---------------------------------------------------------------- mutator
\* mutant: rmtree without ignore_errors, a missing directory is an error
rmtree_strict(f, ignore_errors) ==
    IF ~f.envdir
    THEN [fs |-> f, err |-> FileNotFoundError]
    ELSE [fs |-> NoTree, err |-> NoErr]

\* shutil.rmtree(path, ignore_errors): the whole tree under path goes; a
\* path that does not exist is an error unless errors are ignored
rmtree(f, ignore_errors) ==
    IF ~f.envdir
    THEN [fs |-> f, err |-> IF ignore_errors THEN NoErr ELSE FileNotFoundError]
    ELSE [fs |-> NoTree, err |-> NoErr]

\* shutil.rmtree(envdir, ignore_errors=True): the tree it leaves
rm_venv(f) == rmtree(f, TRUE).fs

\* and the exception it raises, if any
rm_venv_error(f) == rmtree(f, TRUE).err

\* os.makedirs(os.path.dirname(link)); the caller checks f.bindir first,
\* because makedirs raises FileExistsError on an existing leaf
makedirs(f) == [f EXCEPT !.envdir = TRUE, !.bindir = TRUE, !.bindir_junction = FALSE]

\* mklink /J "link" "target" on win32, os.symlink(target, link) elsewhere;
\* both put the new object at link = get_envpython()
make_link(platform, f) ==
    [f EXCEPT !.python = LinkKind(platform)]

\* ---------------------------------------------------------------- guard
\* mutant: "regular" forgets that --print-deps-to is not a regular run
unsupported_raise_regular_is_not_current(option, f, has_cleanup) ==
    IF option.recreate THEN NoErr
    ELSE LET regular == ~option.current_env
         IN IF regular /\ is_current_env_link(f)
            THEN IF has_cleanup
                 THEN ConfigError("previous run didn't finish the cleanup")
                 ELSE ConfigError("regular run after current-env run is not supported without recreate")
            ELSE IF option.current_env /\ is_proper_venv(f)
                 THEN ConfigError("current-env after regular run is not supported without recreate")
                 ELSE NoErr

unsupported_raise(option, f, has_cleanup) ==
    IF option.recreate THEN NoErr
    ELSE LET regular == ~(option.current_env \/ option.print_deps_to # None)
         IN IF regular /\ is_current_env_link(f)
            THEN IF has_cleanup
                 THEN ConfigError("previous run didn't finish the cleanup")
                 ELSE ConfigError("regular run after current-env run is not supported without recreate")
            ELSE IF option.current_env /\ is_proper_venv(f)
                 THEN ConfigError("current-env after regular run is not supported without recreate")
                 ELSE NoErr

\* ---------------------------------------------------------------- print
\* mutant: the arguments are written in one line, sep=" "
print_sep_space(args) ==
    LET RECURSIVE J(_)
        J(a) == IF a = <<>> THEN <<>>
                ELSE IF Len(a) = 1 THEN <<a[1]>>
                ELSE <<a[1], " ">> \o J(Tail(a))
    IN J(args) \o <<NL>>

RECURSIVE JoinNL(_)
JoinNL(args) ==
    IF args = <<>> THEN <<>>
    ELSE IF Len(args) = 1 THEN <<args[1]>>
    ELSE <<args[1], NL>> \o JoinNL(Tail(args))

\* print(*args, sep="\n", file=...): the arguments joined by sep, then end
print_sep_nl(args) == JoinNL(args) \o <<NL>>

\* ---------------------------------------------------------------- hooks
Prefix2(v) == <<v[1], v[2]>>

Raised(f, e) == [fs |-> f, ret |-> "raised", err |-> e, out |-> <<>>]

Returned(f, r, o) == [fs |-> f, ret |-> r, err |-> NoErr, out |-> o]

\* mutant: the old tree is not removed before the link is made
create_fake_keeps_tree(platform, f) ==
    IF f.bindir
    THEN Raised(f, FileExistsError)
    ELSE Returned(make_link(platform, makedirs(f)), "True", <<>>)

\* the body of "if create_fake_env:"
create_fake(platform, f) ==
    LET f1 == rm_venv(f)
    IN IF rm_venv_error(f) # NoErr
       THEN Raised(f1, rm_venv_error(f))
       ELSE IF f1.bindir
       THEN Raised(f1, FileExistsError)
       ELSE Returned(make_link(platform, makedirs(f1)), "True", <<>>)

\* "if not is_proper_venv(venv): rm_venv(venv)", then "return None"
regular_create(f) ==
    IF is_proper_venv(f) THEN Returned(f, "None", <<>>)
    ELSE IF rm_venv_error(f) # NoErr
    THEN Raised(rm_venv(f), rm_venv_error(f))
    ELSE Returned(rm_venv(f), "None", <<>>)

\* mutant: a regular run removes the tree whatever it is
testenv_create_regular_always_removes(option, platform, f, version_info) ==
    LET check_version == option.current_env
    IN IF option.print_deps_to # None /\ is_any_env(f)
       THEN Returned(f, "True", <<>>)
       ELSE LET create_fake_env == option.current_env \/ option.print_deps_to # None
            IN IF check_version /\ version_info = NoVersion
               THEN Raised(f, InterpreterNotFound)
               ELSE IF check_version /\ Prefix2(version_info) # Prefix2(sys_version_info)
               THEN Raised(f, InterpreterMismatch(sys_version_info, version_info))
               ELSE IF create_fake_env
               THEN create_fake(platform, f)
               ELSE Returned(rm_venv(f), "None", <<>>)

\* mutant: the whole version tuples are compared
testenv_create_whole_version(option, platform, f, version_info) ==
    LET check_version == option.current_env
    IN IF option.print_deps_to # None /\ is_any_env(f)
       THEN Returned(f, "True", <<>>)
       ELSE LET create_fake_env == option.current_env \/ option.print_deps_to # None
            IN IF check_version /\ version_info = NoVersion
               THEN Raised(f, InterpreterNotFound)
               ELSE IF check_version /\ version_info # sys_version_info
               THEN Raised(f, InterpreterMismatch(sys_version_info, version_info))
               ELSE IF create_fake_env
               THEN create_fake(platform, f)
               ELSE regular_create(f)

\* mutant: the fallback of --print-deps-to checks the version too
testenv_create_print_deps_checks_version(option, platform, f, version_info) ==
    LET check_version == option.current_env \/ option.print_deps_to # None
    IN IF option.print_deps_to # None /\ is_any_env(f)
       THEN Returned(f, "True", <<>>)
       ELSE LET create_fake_env == option.current_env \/ option.print_deps_to # None
            IN IF check_version /\ version_info = NoVersion
               THEN Raised(f, InterpreterNotFound)
               ELSE IF check_version /\ Prefix2(version_info) # Prefix2(sys_version_info)
               THEN Raised(f, InterpreterMismatch(sys_version_info, version_info))
               ELSE IF create_fake_env
               THEN create_fake(platform, f)
               ELSE regular_create(f)

\* mutant: --print-deps-to does not keep an environment that exists
testenv_create_print_deps_never_skips(option, platform, f, version_info) ==
    LET check_version == option.current_env
    IN IF FALSE
       THEN Returned(f, "True", <<>>)
       ELSE LET create_fake_env == option.current_env \/ option.print_deps_to # None
            IN IF check_version /\ version_info = NoVersion
               THEN Raised(f, InterpreterNotFound)
               ELSE IF check_version /\ Prefix2(version_info) # Prefix2(sys_version_info)
               THEN Raised(f, InterpreterMismatch(sys_version_info, version_info))
               ELSE IF create_fake_env
               THEN create_fake(platform, f)
               ELSE regular_create(f)

\* mutant: a regular run leaves whatever it finds to the host
testenv_create_regular_keeps_leftovers(option, platform, f, version_info) ==
    LET check_version == option.current_env
    IN IF option.print_deps_to # None /\ is_any_env(f)
       THEN Returned(f, "True", <<>>)
       ELSE LET create_fake_env == option.current_env \/ option.print_deps_to # None
            IN IF check_version /\ version_info = NoVersion
               THEN Raised(f, InterpreterNotFound)
               ELSE IF check_version /\ Prefix2(version_info) # Prefix2(sys_version_info)
               THEN Raised(f, InterpreterMismatch(sys_version_info, version_info))
               ELSE IF create_fake_env
               THEN create_fake(platform, f)
               ELSE Returned(f, "None", <<>>)

\* mutant: only the major versions are compared
testenv_create_major_only(option, platform, f, version_info) ==
    LET check_version == option.current_env
    IN IF option.print_deps_to # None /\ is_any_env(f)
       THEN Returned(f, "True", <<>>)
       ELSE LET create_fake_env == option.current_env \/ option.print_deps_to # None
            IN IF check_version /\ version_info = NoVersion
               THEN Raised(f, InterpreterNotFound)
               ELSE IF check_version /\ version_info[1] # sys_version_info[1]
               THEN Raised(f, InterpreterMismatch(sys_version_info, version_info))
               ELSE IF create_fake_env
               THEN create_fake(platform, f)
               ELSE regular_create(f)

testenv_create(option, platform, f, version_info) ==
    LET check_version == option.current_env
    IN IF option.print_deps_to # None /\ is_any_env(f)
       THEN Returned(f, "True", <<>>)
       ELSE LET create_fake_env == option.current_env \/ option.print_deps_to # None
            IN IF check_version /\ version_info = NoVersion
               THEN Raised(f, InterpreterNotFound)
               ELSE IF check_version /\ Prefix2(version_info) # Prefix2(sys_version_info)
               THEN Raised(f, InterpreterMismatch(sys_version_info, version_info))
               ELSE IF create_fake_env
               THEN create_fake(platform, f)
               ELSE regular_create(f)

\* mutant: tox_package does not run the guard
package_without_guard(option, f, has_cleanup) == Returned(f, "None", <<>>)

package(option, f, has_cleanup) ==
    LET e == unsupported_raise(option, f, has_cleanup)
    IN IF e # NoErr THEN Raised(f, e) ELSE Returned(f, "None", <<>>)

\* mutant: only --current-env skips the installation
testenv_install_deps_current_only(option, f, has_cleanup) ==
    LET e == unsupported_raise(option, f, has_cleanup)
    IN IF e # NoErr THEN Raised(f, e)
       ELSE IF option.current_env
       THEN Returned(f, "True", <<>>)
       ELSE Returned(f, "None", <<>>)

testenv_install_deps(option, f, has_cleanup) ==
    LET e == unsupported_raise(option, f, has_cleanup)
    IN IF e # NoErr THEN Raised(f, e)
       ELSE IF option.current_env \/ option.print_deps_to # None
       THEN Returned(f, "True", <<>>)
       ELSE Returned(f, "None", <<>>)

\* mutant: the dependencies are printed before the guard runs
runtest_prints_first(option, f, has_cleanup, deps) ==
    LET e == unsupported_raise(option, f, has_cleanup)
    IN IF option.print_deps_to # None
       THEN IF e # NoErr
            THEN [fs |-> f, ret |-> "raised", err |-> e, out |-> print_sep_nl(deps)]
            ELSE Returned(f, "True", print_sep_nl(deps))
       ELSE IF e # NoErr THEN Raised(f, e) ELSE Returned(f, "None", <<>>)

runtest(option, f, has_cleanup, deps) ==
    LET e == unsupported_raise(option, f, has_cleanup)
    IN IF e # NoErr THEN Raised(f, e)
       ELSE IF option.print_deps_to # None
       THEN Returned(f, "True", print_sep_nl(deps))
       ELSE Returned(f, "None", <<>>)

\* mutant: the cleanup removes every environment that has an interpreter
cleanup_any_env(tree) ==
    [e \in Envs |-> IF is_any_env(tree[e]) THEN rm_venv(tree[e]) ELSE tree[e]]

\* for venv in session.venv_dict.values(): if is_current_env_link: rm_venv
cleanup(tree) ==
    [e \in Envs |-> IF is_current_env_link(tree[e]) THEN rm_venv(tree[e]) ELSE tree[e]]

\* mutant: the options are applied to the configuration before the two
\* print-deps options are found to clash
configure_conflict_late(option, config) ==
    LET clash == option.print_deps_only /\ option.print_deps_to # None
        o1 == IF option.print_deps_only /\ option.print_deps_to = None
              THEN [option EXCEPT !.print_deps_to = "stdout"]
              ELSE option
        forced == [skipsdist |-> TRUE, whitelist_externals |-> [e \in Envs |-> "*"]]
    IN IF clash
       THEN [option |-> option, config |-> forced,
             err |-> ConfigError("--print-deps-only cannot be used together with --print-deps-to")]
       ELSE IF o1.current_env \/ o1.print_deps_to # None
       THEN [option |-> o1, config |-> forced, err |-> NoErr]
       ELSE [option |-> o1, config |-> config, err |-> NoErr]

\* mutant: --print-deps-only alone is not taken for a print-deps run
configure_alias_not_counted(option, config) ==
    LET clash == option.print_deps_only /\ option.print_deps_to # None
        o1 == IF option.print_deps_only /\ option.print_deps_to = None
              THEN [option EXCEPT !.print_deps_to = "stdout"]
              ELSE option
    IN IF clash
       THEN [option |-> option, config |-> config,
             err |-> ConfigError("--print-deps-only cannot be used together with --print-deps-to")]
       ELSE IF option.current_env \/ option.print_deps_to # None
       THEN [option |-> o1,
             config |-> [skipsdist |-> TRUE, whitelist_externals |-> [e \in Envs |-> "*"]],
             err |-> NoErr]
       ELSE [option |-> o1, config |-> config, err |-> NoErr]

configure(option, config) ==
    LET clash == option.print_deps_only /\ option.print_deps_to # None
        o1 == IF option.print_deps_only /\ option.print_deps_to = None
              THEN [option EXCEPT !.print_deps_to = "stdout"]
              ELSE option
    IN IF clash
       THEN [option |-> option, config |-> config,
             err |-> ConfigError("--print-deps-only cannot be used together with --print-deps-to")]
       ELSE IF o1.current_env \/ o1.print_deps_to # None
       THEN [option |-> o1,
             config |-> [skipsdist |-> TRUE, whitelist_externals |-> [e \in Envs |-> "*"]],
             err |-> NoErr]
       ELSE [option |-> o1, config |-> config, err |-> NoErr]

\* ---------------------------------------------------------------- state
VARIABLES
    phase,          \* "start" before tox_configure, "run" after, "failed" if it raised
    option,         \* config.option
    config,         \* config.skipsdist, envconfigs[*].whitelist_externals
    platform,       \* sys.platform
    fs,             \* the tree of every environment
    sink,           \* what was written to config.option.print_deps_to
    printed,        \* history: the resolver's results printed, in call order
    solo,           \* history: every tree as the calls for its own environment alone make it
    last            \* history: the last hook call and its outcome

vars == <<phase, option, config, platform, fs, sink, printed, solo, last>>

Options ==
    [current_env : BOOLEAN, print_deps_only : BOOLEAN,
     print_deps_to : {None, "file"}, recreate : BOOLEAN]

NoCall == [hook |-> "none", env |-> None, pre |-> [e \in Envs |-> NoTree],
           ret |-> "None", err |-> NoErr, out |-> <<>>,
           version_info |-> NoVersion, deps |-> <<>>]

\* pre is the tree of the environment the hook was called for, before the call
Call(h, e, r, vi, d) ==
    [hook |-> h, env |-> e, pre |-> [x \in Envs |-> IF x = e THEN fs[x] ELSE NoTree], ret |-> r.ret, err |-> r.err, out |-> r.out,
     version_info |-> vi, deps |-> d]

Init ==
    /\ phase = "start"
    /\ option \in Options
    /\ config = [skipsdist |-> FALSE, whitelist_externals |-> [e \in Envs |-> ""]]
    /\ platform \in Platforms
    /\ fs \in [Envs -> InitTrees(platform)]
    /\ sink = <<>>
    /\ printed = <<>>
    /\ solo = fs
    /\ last = NoCall

tox_configure ==
    /\ phase = "start"
    /\ LET r == configure(option, config)
       IN /\ option' = r.option
          /\ config' = r.config
          /\ phase' = IF r.err = NoErr THEN "run" ELSE "failed"
          /\ last' = [NoCall EXCEPT !.hook = "tox_configure", !.err = r.err,
                                    !.ret = IF r.err = NoErr THEN "config" ELSE "raised"]
    /\ UNCHANGED <<platform, fs, sink, printed, solo>>

\* mutant: rm_venv removes one directory too high, the root of all the
\* environments, whenever the link is made
tox_testenv_create_shared_root(e) ==
    /\ phase = "run"
    /\ \E vi \in VersionInfos :
          LET r == testenv_create(option, platform, fs[e], vi)
              wiped == r.ret = "True" /\ ~(option.print_deps_to # None /\ is_any_env(fs[e]))
          IN /\ fs' = [x \in Envs |-> IF x = e THEN r.fs
                                       ELSE IF wiped THEN NoTree ELSE fs[x]]
             /\ solo' = [solo EXCEPT ![e] = testenv_create(option, platform, solo[e], vi).fs]
             /\ last' = Call("tox_testenv_create", e, r, vi, <<>>)
    /\ UNCHANGED <<phase, option, config, platform, sink, printed>>

tox_testenv_create(e) ==
    /\ phase = "run"
    /\ \E vi \in VersionInfos :
          LET r == testenv_create(option, platform, fs[e], vi)
          IN /\ fs' = [fs EXCEPT ![e] = r.fs]
             /\ solo' = [solo EXCEPT ![e] = testenv_create(option, platform, solo[e], vi).fs]
             /\ last' = Call("tox_testenv_create", e, r, vi, <<>>)
    /\ UNCHANGED <<phase, option, config, platform, sink, printed>>

tox_package(e) ==
    /\ phase = "run"
    /\ \E has_cleanup \in BOOLEAN :
          LET r == package(option, fs[e], has_cleanup)
          IN /\ fs' = [fs EXCEPT ![e] = r.fs]
             /\ solo' = [solo EXCEPT ![e] = package(option, solo[e], has_cleanup).fs]
             /\ last' = Call("tox_package", e, r, NoVersion, <<>>)
    /\ UNCHANGED <<phase, option, config, platform, sink, printed>>

tox_testenv_install_deps(e) ==
    /\ phase = "run"
    /\ \E has_cleanup \in BOOLEAN :
          LET r == testenv_install_deps(option, fs[e], has_cleanup)
          IN /\ fs' = [fs EXCEPT ![e] = r.fs]
             /\ solo' = [solo EXCEPT ![e] = testenv_install_deps(option, solo[e], has_cleanup).fs]
             /\ last' = Call("tox_testenv_install_deps", e, r, NoVersion, <<>>)
    /\ UNCHANGED <<phase, option, config, platform, sink, printed>>

tox_runtest(e) ==
    /\ phase = "run"
    /\ \E deps \in DepLists, has_cleanup \in BOOLEAN :
          LET r == runtest(option, fs[e], has_cleanup, deps)
          IN /\ Len(sink) + Len(r.out) <= MaxSink
             /\ fs' = [fs EXCEPT ![e] = r.fs]
             /\ sink' = sink \o r.out
             /\ printed' = IF r.ret = "True" THEN Append(printed, deps) ELSE printed
             /\ solo' = [solo EXCEPT ![e] = runtest(option, solo[e], has_cleanup, deps).fs]
             /\ last' = Call("tox_runtest", e, r, NoVersion, deps)
    /\ UNCHANGED <<phase, option, config, platform>>

tox_cleanup ==
    /\ phase = "run"
    /\ fs' = cleanup(fs)
    /\ solo' = cleanup(solo)
    /\ phase' = "done"
    /\ last' = [NoCall EXCEPT !.hook = "tox_cleanup", !.pre = fs]
    /\ UNCHANGED <<option, config, platform, sink, printed>>

Next ==
    \/ tox_configure
    \/ \E e \in Envs : tox_testenv_create(e)
    \/ \E e \in Envs : tox_package(e)
    \/ \E e \in Envs : tox_testenv_install_deps(e)
    \/ \E e \in Envs : tox_runtest(e)
    \/ tox_cleanup

Spec == Init /\ [][Next]_vars

\* tox_configure alone, from every configuration tox.ini can give: skipsdist
\* set or not, whitelist_externals empty or naming a command.
Configs ==
    [skipsdist : BOOLEAN, whitelist_externals : [Envs -> {"", "make"}]]

InitConfigure ==
    /\ phase = "start"
    /\ option \in Options
    /\ config \in Configs
    /\ platform \in Platforms
    /\ fs \in [Envs -> InitTrees(platform)]
    /\ sink = <<>>
    /\ printed = <<>>
    /\ solo = fs
    /\ last = NoCall

NextConfigure == tox_configure

SpecConfigure == InitConfigure /\ [][NextConfigure]_vars

\* ================================================================ claims
\* The shape the specification gives a tree, from the two existence checks.
Shape(f) ==
    IF is_proper_venv(f) THEN "Materialized"
    ELSE IF is_current_env_link(f) THEN "Redirect"
    ELSE "Absent"

\* The three run modes as the hooks tell them apart: a sink for
\* --print-deps-to is tested first (tox_testenv_create, tox_runtest), then
\* --current-env; "regular" is line 101.
Regular(o) == ~(o.current_env \/ o.print_deps_to # None)

CurrentEnvOnly(o) == o.current_env /\ o.print_deps_to = None

PrintDeps(o) == o.print_deps_to # None

GuardHooks == {"tox_package", "tox_testenv_install_deps", "tox_runtest"}

EnvHooks == GuardHooks \cup {"tox_testenv_create"}

\* the tree of the environment of the last call, before and after it
Pre == last.pre[last.env]

Post == fs[last.env]

\* the version the last provisioning call was given matches the host's
VersionMatches == last.version_info # NoVersion /\ Prefix2(last.version_info) = Prefix2(sys_version_info)

VersionDiffers == last.version_info # NoVersion /\ Prefix2(last.version_info) # Prefix2(sys_version_info)

\* the guard's table as the specification states it
GuardFails(o, f) ==
    /\ ~o.recreate
    /\ \/ Regular(o) /\ Shape(f) = "Redirect"
       \/ o.current_env /\ Shape(f) = "Materialized"

\* C1: for every options/tree/recreate combination the guard succeeds when
\* recreate is requested, and otherwise fails (ConfigError) exactly when the
\* run is regular and the tree a Redirect, or --current-env is requested and
\* the tree Materialized; the hooks that run the guard raise exactly then.
C1_GuardTable ==
    /\ phase = "run" =>
          \A f \in FsStates, hc \in BOOLEAN :
             /\ unsupported_raise(option, f, hc).type = (IF GuardFails(option, f) THEN "ConfigError" ELSE "none")
             /\ ~GuardFails(option, f) => unsupported_raise(option, f, hc) = NoErr
    /\ last.hook \in GuardHooks =>
          (last.err.type = "ConfigError") = GuardFails(option, Pre)

C1_Witness ==
    /\ last.hook = "tox_package"
    /\ PrintDeps(option) /\ ~option.current_env /\ ~option.recreate
    /\ Shape(Pre) = "Redirect"
    /\ last.err = NoErr

\* C2: tox_cleanup removes every Redirect (it is Absent afterwards) and
\* leaves every Materialized and every Absent tree as it was; no Redirect
\* is left.
C2_Cleanup ==
    last.hook = "tox_cleanup" =>
       \A e \in Envs :
          /\ Shape(last.pre[e]) = "Redirect" => fs[e] = NoTree /\ Shape(fs[e]) = "Absent"
          /\ Shape(last.pre[e]) # "Redirect" => fs[e] = last.pre[e]
          /\ Shape(fs[e]) # "Redirect"

C2_Witness ==
    /\ last.hook = "tox_cleanup"
    /\ \E a, b \in Envs :
          /\ Shape(last.pre[a]) = "Redirect" /\ Shape(fs[a]) = "Absent"
          /\ Shape(last.pre[b]) = "Materialized" /\ fs[b] = last.pre[b]

\* C3 as stated: without recreate no hook call in any mode changes the shape
\* of a Materialized environment.
C3_Original ==
    [][~option.recreate =>
          \A e \in Envs : Shape(fs[e]) = "Materialized" => Shape(fs'[e]) = "Materialized"]_vars

\* C3: without recreate the tree of a Materialized environment is changed by
\* one call only, tox_testenv_create for that environment with --current-env
\* alone and a matching version, which puts a Redirect in its place; every
\* other call of every hook leaves the tree as it is.
C3_MaterializedKept ==
    [][~option.recreate =>
          \A e \in Envs : Shape(fs[e]) = "Materialized" =>
             \/ fs'[e] = fs[e]
             \/ /\ last'.hook = "tox_testenv_create" /\ last'.env = e
                /\ CurrentEnvOnly(option)
                /\ last'.ret = "True"
                /\ Prefix2(last'.version_info) = Prefix2(sys_version_info)
                /\ Shape(fs'[e]) = "Redirect"]_vars

C3_Witness ==
    /\ ~option.recreate
    /\ last.hook = "tox_testenv_create"
    /\ Shape(Pre) = "Materialized"
    /\ Regular(option)
    /\ Post = Pre

\* C4: tox_package, tox_testenv_install_deps and tox_runtest run the guard
\* first: when it fails the hook raises the ConfigError, is not "handled",
\* has written nothing and has left the tree as it was.
C4_GuardFirst ==
    (last.hook \in GuardHooks /\ GuardFails(option, Pre)) =>
       /\ last.err.type = "ConfigError"
       /\ last.ret = "raised"
       /\ last.out = <<>>
       /\ Post = Pre

C4_Witness ==
    /\ last.hook = "tox_runtest"
    /\ PrintDeps(option) /\ option.current_env
    /\ Shape(Pre) = "Materialized"
    /\ last.err.type = "ConfigError"
    /\ last.deps # <<>>

\* C5 as stated: in a regular run without recreate, whichever hook
\* (provisioning included) acts on a Redirect fails with the ConfigError and
\* leaves the tree as it was.
C5_Original ==
    (/\ last.hook \in EnvHooks
     /\ Regular(option) /\ ~option.recreate
     /\ Shape(Pre) = "Redirect") =>
       /\ last.err.type = "ConfigError"
       /\ Post = Pre

\* C5: in a regular run without recreate, tox_package,
\* tox_testenv_install_deps and tox_runtest called for a Redirect fail with
\* the stale-redirect ConfigError and leave the tree as it was;
\* tox_testenv_create does not run the guard: it removes the Redirect without
\* an error and returns None (not handled).
C5_StaleRedirect ==
    (/\ last.hook \in EnvHooks
     /\ Regular(option) /\ ~option.recreate
     /\ Shape(Pre) = "Redirect") =>
       IF last.hook \in GuardHooks
       THEN /\ last.err.type = "ConfigError"
            /\ last.err.msg \in {"previous run didn't finish the cleanup",
                                 "regular run after current-env run is not supported without recreate"}
            /\ last.ret = "raised"
            /\ Post = Pre
       ELSE /\ last.err = NoErr
            /\ last.ret = "None"
            /\ Post = NoTree

C5_Witness ==
    /\ last.hook = "tox_package"
    /\ Regular(option) /\ ~option.recreate
    /\ Shape(Pre) = "Redirect"
    /\ last.err.type = "ConfigError"
    /\ Shape(Post) = "Redirect"

\* C6: with --current-env alone and a version that matches the host's at
\* major.minor, tox_testenv_create called on any tree (Absent, Redirect or
\* Materialized, so also on the Redirect an earlier call made) raises
\* nothing, returns True and leaves a Redirect.
C6_CreateRedirect ==
    (/\ last.hook = "tox_testenv_create"
     /\ CurrentEnvOnly(option)
     /\ VersionMatches) =>
       /\ last.err = NoErr
       /\ last.ret = "True"
       /\ Shape(Post) = "Redirect"

C6_Witness ==
    /\ last.hook = "tox_testenv_create"
    /\ CurrentEnvOnly(option)
    /\ VersionMatches
    /\ Shape(Pre) = "Redirect"
    /\ last.ret = "True"
    /\ Shape(Post) = "Redirect"

\* C7: with --current-env alone, a version that differs from the host's at
\* major.minor makes tox_testenv_create raise InterpreterMismatch (a subclass
\* of InterpreterNotFound) that carries both versions, with the tree as it
\* was, whatever it was; a version that differs only below major.minor
\* raises nothing.
C7_VersionMismatch ==
    (last.hook = "tox_testenv_create" /\ CurrentEnvOnly(option)) =>
       /\ VersionDiffers =>
             /\ last.err.type = "InterpreterMismatch"
             /\ BaseClass(last.err.type) = "InterpreterNotFound"
             /\ last.err.current = sys_version_info
             /\ last.err.requested = last.version_info
             /\ last.ret = "raised"
             /\ Post = Pre
       /\ VersionMatches => last.err = NoErr

C7_Witness ==
    /\ last.hook = "tox_testenv_create"
    /\ CurrentEnvOnly(option)
    /\ VersionDiffers
    /\ Shape(Pre) = "Materialized"
    /\ last.err.type = "InterpreterMismatch"
    /\ Post = Pre

\* C8 as stated: with a print-deps sink and an Absent tree, a version that
\* differs from the host's makes tox_testenv_create raise
\* InterpreterMismatch, and no redirect is made.
C8_Original ==
    (/\ last.hook = "tox_testenv_create"
     /\ PrintDeps(option)
     /\ Shape(Pre) = "Absent"
     /\ VersionDiffers) =>
       /\ last.err.type = "InterpreterMismatch"
       /\ Shape(Post) = "Absent"

\* C8: with a print-deps sink and an Absent tree, tox_testenv_create checks
\* the version only if --current-env is requested as well (a differing
\* version then raises InterpreterMismatch and no redirect is made); with
\* the sink alone there is no version check: the redirect is made and True
\* returned also when the versions differ.
C8_FallbackVersionCheck ==
    (/\ last.hook = "tox_testenv_create"
     /\ PrintDeps(option)
     /\ Shape(Pre) = "Absent"
     /\ VersionDiffers) =>
       IF option.current_env
       THEN /\ last.err.type = "InterpreterMismatch"
            /\ Post = Pre
       ELSE /\ last.err = NoErr
            /\ last.ret = "True"
            /\ Shape(Post) = "Redirect"

C8_Witness ==
    /\ last.hook = "tox_testenv_create"
    /\ PrintDeps(option) /\ ~option.current_env
    /\ Shape(Pre) = "Absent"
    /\ VersionDiffers
    /\ last.ret = "True"
    /\ Shape(Post) = "Redirect"

\* C9 as stated: with a print-deps sink tox_testenv_create returns True,
\* keeps a tree that is a Redirect or Materialized and turns an Absent one
\* into a Redirect, so the tree is never Absent afterwards.
C9_Original ==
    (last.hook = "tox_testenv_create" /\ PrintDeps(option)) =>
       /\ last.ret = "True"
       /\ Shape(Pre) # "Absent" => Post = Pre
       /\ Shape(Pre) = "Absent" => Shape(Post) = "Redirect"
       /\ Shape(Post) # "Absent"

\* C9: with a print-deps sink tox_testenv_create returns True and changes
\* nothing when the tree is a Redirect or Materialized; an Absent tree
\* becomes a Redirect (True returned), unless --current-env is requested as
\* well and the version is unknown or differs from the host's at
\* major.minor: then InterpreterNotFound or InterpreterMismatch is raised
\* and the tree stays as it was.  After a call that returned, the tree is
\* never Absent.
C9_PrintDepsCreate ==
    (last.hook = "tox_testenv_create" /\ PrintDeps(option)) =>
       /\ Shape(Pre) # "Absent" => last.ret = "True" /\ Post = Pre
       /\ Shape(Pre) = "Absent" =>
             IF option.current_env /\ ~VersionMatches
             THEN /\ last.ret = "raised"
                  /\ last.err.type = (IF last.version_info = NoVersion
                                      THEN "InterpreterNotFound" ELSE "InterpreterMismatch")
                  /\ Post = Pre
             ELSE last.ret = "True" /\ Shape(Post) = "Redirect"
       /\ last.ret = "True" => Shape(Post) # "Absent"

C9_Witness ==
    /\ last.hook = "tox_testenv_create"
    /\ PrintDeps(option) /\ ~option.current_env
    /\ Shape(Pre) = "Materialized"
    /\ last.ret = "True"
    /\ Post = Pre

\* A text as the lines a reader gets: the tokens before each newline, and
\* what follows the last newline if anything does.
RECURSIVE SplitLines(_)
SplitLines(text) ==
    IF text = <<>> THEN <<>>
    ELSE IF \E i \in 1..Len(text) : text[i] = NL
    THEN LET n == CHOOSE i \in 1..Len(text) :
                     text[i] = NL /\ \A j \in 1..(i - 1) : text[j] # NL
         IN <<SubSeq(text, 1, n - 1)>> \o SplitLines(SubSeq(text, n + 1, Len(text)))
    ELSE <<text>>

RECURSIVE Flatten(_)
Flatten(lists) == IF lists = <<>> THEN <<>> ELSE Head(lists) \o Flatten(Tail(lists))

\* one specifier per line, in order
OnePerLine(deps) == [i \in 1..Len(deps) |-> <<deps[i]>>]

\* what a reader finds for one call: the specifiers, or one empty line
LinesOfCall(deps) == IF deps = <<>> THEN <<<<>>>> ELSE OnePerLine(deps)

\* C10 as stated: with a print-deps sink and the guard passing, tox_runtest
\* writes exactly the resolver's specifiers, one per line, in order, and
\* returns True; over the session the sink holds every environment's
\* specifiers in call order; without a sink it writes nothing and returns
\* None.
C10_Original ==
    /\ (last.hook = "tox_runtest" /\ last.err = NoErr) =>
          IF PrintDeps(option)
          THEN last.ret = "True" /\ SplitLines(last.out) = OnePerLine(last.deps)
          ELSE last.ret = "None" /\ last.out = <<>>
    /\ SplitLines(sink) = OnePerLine(Flatten(printed))

\* C10: the same, except that for a resolver that returns no specifier the
\* call writes one empty line (print() with no argument still writes the
\* newline).
C10_PrintDeps ==
    /\ (last.hook = "tox_runtest" /\ last.err = NoErr) =>
          IF PrintDeps(option)
          THEN last.ret = "True" /\ SplitLines(last.out) = LinesOfCall(last.deps)
          ELSE last.ret = "None" /\ last.out = <<>>
    /\ SplitLines(sink) = Flatten([i \in 1..Len(printed) |-> LinesOfCall(printed[i])])
    /\ ~PrintDeps(option) => sink = <<>>

C10_Witness ==
    /\ last.hook = "tox_runtest"
    /\ PrintDeps(option)
    /\ Len(printed) = 2
    /\ printed[1] # printed[2]
    /\ Len(last.deps) = 1
    /\ Len(sink) = 4
    /\ last.ret = "True"

\* C11: with --print-deps-only and --print-deps-to together tox_configure
\* raises the ConfigError and has changed neither the configuration
\* (skipsdist, whitelist_externals of any environment) nor any tree on disk.
C11_ConflictFirst ==
    [][(phase = "start" /\ option.print_deps_only /\ option.print_deps_to # None) =>
          /\ phase' = "failed"
          /\ last'.err.type = "ConfigError"
          /\ last'.ret = "raised"
          /\ config' = config
          /\ option' = option
          /\ fs' = fs]_vars

C11_Witness ==
    /\ phase = "failed"
    /\ last.hook = "tox_configure"
    /\ last.err.type = "ConfigError"
    /\ option.print_deps_only /\ option.print_deps_to = "file" /\ option.current_env
    /\ ~config.skipsdist
    /\ \E e \in Envs : config.whitelist_externals[e] = "make"

\* C12: when tox_configure returns, skipsdist is on and whitelist_externals
\* is "*" for every environment if --current-env, --print-deps-to or the
\* deprecated --print-deps-only (which becomes a sink on stdout) was given;
\* with none of them skipsdist and every whitelist_externals are as before.
C12_ConfigForced ==
    [][(phase = "start" /\ phase' = "run") =>
          /\ option.print_deps_only => option'.print_deps_to = "stdout"
          /\ ~option.print_deps_only => option' = option
          /\ IF option.current_env \/ option.print_deps_to # None \/ option.print_deps_only
             THEN /\ config'.skipsdist
                  /\ \A e \in Envs : config'.whitelist_externals[e] = "*"
             ELSE config' = config]_vars

C12_Witness ==
    /\ phase = "run"
    /\ last.hook = "tox_configure"
    /\ option.print_deps_only /\ ~option.current_env /\ option.print_deps_to = "stdout"
    /\ config.skipsdist
    /\ \A e \in Envs : config.whitelist_externals[e] = "*"

\* C13: in a regular run tox_testenv_create always returns None (the host
\* provisions), never leaves a Redirect, leaves a Materialized tree as it is
\* and removes the environment root of every other tree (a Redirect, or
\* leftovers that count as Absent), so that nothing is there when the host
\* starts.
C13_RegularCreate ==
    (last.hook = "tox_testenv_create" /\ Regular(option)) =>
       /\ last.ret = "None"
       /\ last.err = NoErr
       /\ Shape(Pre) = "Materialized" => Post = Pre
       /\ Shape(Pre) # "Materialized" => Post = NoTree
       /\ Shape(Post) # "Redirect"

C13_Witness ==
    /\ last.hook = "tox_testenv_create"
    /\ Regular(option)
    /\ Shape(Pre) = "Absent" /\ Pre.activate
    /\ Post = NoTree
    /\ last.ret = "None"

\* C14: when the guard passes tox_testenv_install_deps returns True exactly
\* when --current-env or a print-deps sink is requested and None in a
\* regular run; it never changes the tree, whether the guard passes or not.
C14_InstallDeps ==
    last.hook = "tox_testenv_install_deps" =>
       /\ Post = Pre
       /\ last.err = NoErr =>
             /\ (last.ret = "True") = (option.current_env \/ option.print_deps_to # None)
             /\ Regular(option) => last.ret = "None"

C14_Witness ==
    /\ last.hook = "tox_testenv_install_deps"
    /\ PrintDeps(option) /\ ~option.current_env
    /\ Shape(Pre) = "Redirect"
    /\ last.ret = "True"
    /\ Post = Pre

\* C15: for every outcome of the two existence checks exactly one of the
\* three shapes holds: Absent when the interpreter path does not exist (also
\* when only the activation script does), Redirect (is_current_env_link)
\* when the interpreter exists and the script does not, Materialized
\* (is_proper_venv) when both do; is_any_env holds exactly for Redirect and
\* Materialized.
ShapeTable(f) ==
    LET python == f.python # "none"
        activate == f.activate
    IN /\ is_current_env_link(f) = (python /\ ~activate)
       /\ is_proper_venv(f) = (python /\ activate)
       /\ is_any_env(f) = python
       /\ ~(is_current_env_link(f) /\ is_proper_venv(f))
       /\ (~is_current_env_link(f) /\ ~is_proper_venv(f)) = ~python
       /\ is_any_env(f) = (is_current_env_link(f) \/ is_proper_venv(f))
       /\ is_any_env(f) = (Shape(f) \in {"Redirect", "Materialized"})

C15_Shapes ==
    /\ \A f \in FsStates : ShapeTable(f)
    /\ \A e \in Envs : ShapeTable(fs[e])
    /\ (last.hook = "tox_testenv_create" /\ PrintDeps(option) /\ last.ret = "True") =>
          IF Pre.python = "none" THEN Shape(Post) = "Redirect" ELSE Post = Pre

C15_Witness ==
    /\ last.hook = "tox_testenv_create"
    /\ PrintDeps(option)
    /\ Pre.python = "none" /\ Pre.activate
    /\ Shape(Pre) = "Absent"
    /\ Shape(Post) = "Redirect"

\* C16: rm_venv followed by the inspection gives Absent whatever the tree
\* was, and it can be repeated: on a tree that does not exist it raises
\* nothing and leaves nothing.
C16_Destroy ==
    /\ \A f \in FsStates :
          /\ Shape(rm_venv(f)) = "Absent"
          /\ ~is_any_env(rm_venv(f))
          /\ rm_venv_error(f) = NoErr
          /\ rm_venv(rm_venv(f)) = rm_venv(f)
          /\ rm_venv_error(rm_venv(f)) = NoErr
    /\ (last.hook = "tox_testenv_create" /\ Regular(option) /\ Shape(Pre) # "Materialized") =>
          last.err = NoErr /\ Shape(Post) = "Absent"
    /\ last.hook = "tox_cleanup" =>
          \A e \in Envs : Shape(last.pre[e]) = "Redirect" => Shape(fs[e]) = "Absent"

C16_Witness ==
    /\ last.hook = "tox_testenv_create"
    /\ Regular(option)
    /\ Pre = NoTree
    /\ last.err = NoErr
    /\ Post = NoTree

\* C17: the hooks called for one environment read and change only the tree
\* of that environment: whatever the order of the calls for the
\* environments, every tree (and so every shape) is what the calls for its
\* own environment alone make of it.
C17_OwnTreeOnly ==
    \A e \in Envs :
       /\ fs[e] = solo[e]
       /\ Shape(fs[e]) = Shape(solo[e])

C17_Witness ==
    /\ last.hook = "tox_testenv_create"
    /\ last.ret = "True"
    /\ Shape(Pre) = "Absent" /\ Shape(Post) = "Redirect"
    /\ \E b \in Envs :
          /\ b # last.env
          /\ Shape(fs[b]) = "Materialized"
          /\ fs[b] = solo[b]

\* the last call was tox_testenv_create and it made the link
LinkMade ==
    /\ last.hook = "tox_testenv_create"
    /\ last.ret = "True"
    /\ ~(PrintDeps(option) /\ is_any_env(Pre))

\* C18: when tox_testenv_create makes the redirect the tree is a Redirect
\* on both platforms; on win32 the redirect is a junction at the level of
\* the bin directory, one level above the interpreter path, elsewhere a
\* symbolic link at the interpreter path; the directory above the link
\* exists.
C18_Original ==
    LinkMade =>
       /\ Shape(Post) = "Redirect"
       /\ Post.envdir /\ Post.bindir
       /\ IF platform = "win32"
          THEN Post.bindir_junction /\ Post.python \notin {"junction", "symlink"}
          ELSE ~Post.bindir_junction /\ Post.python = "symlink"

\* C19 as stated: with --current-env (alone or with a print-deps sink) a
\* call of tox_testenv_create that returns True has checked that the
\* versions match at major.minor, whatever the tree was.
C19_Original ==
    (last.hook = "tox_testenv_create" /\ option.current_env /\ last.ret = "True") =>
       VersionMatches

\* C19: with --current-env a call of tox_testenv_create that returns True
\* has checked that the versions match at major.minor, except when a
\* print-deps sink is configured as well and an environment exists (the
\* tree is a Redirect or Materialized): then it returns True at once, with
\* no version check and the tree as it was.
C19_VersionChecked ==
    (last.hook = "tox_testenv_create" /\ option.current_env) =>
       /\ last.ret = "True" =>
             \/ VersionMatches
             \/ PrintDeps(option) /\ Shape(Pre) # "Absent"
       /\ (PrintDeps(option) /\ Shape(Pre) # "Absent") =>
             last.ret = "True" /\ Post = Pre

C19_Witness ==
    /\ last.hook = "tox_testenv_create"
    /\ option.current_env /\ PrintDeps(option)
    /\ Shape(Pre) = "Redirect"
    /\ VersionDiffers
    /\ last.ret = "True"
    /\ Post = Pre
====
